---- MODULE Spec2Model ----
(***************************************************************************)
(* Model of src/telegram_core_components.py: the Xircuits nodes that wrap  *)
(* python-telegram-bot (TelegramInitApp, TelegramAddEchoHandler,           *)
(* TelegramRunApp, TelegramAddCommandEvent, TelegramParsePayload,          *)
(* TelegramReplyToMessageEvent).                                           *)
(*                                                                         *)
(* The specifications share the variables and the actions:                 *)
(*   Spec       the graph phase: the nodes that build and start the bot    *)
(*              are executed with inputs drawn from small sets;            *)
(*   SpecBot    the polling phase: updates arrive, the handlers attached   *)
(*              by the nodes are called, listeners come and go;            *)
(*   SpecReply  the polling phase, the listeners' subgraphs executing      *)
(*              TelegramReplyToMessageEvent, the event loop starting the   *)
(*              tasks it creates;                                          *)
(*   SpecParse  the polling phase, the listeners' subgraphs executing      *)
(*              TelegramParsePayload.                                      *)
(***************************************************************************)
EXTENDS Integers, Sequences, FiniteSets, TLC

VARIABLES
    apps,     \* node instance of TelegramInitApp -> the Application it built
    last,     \* the last node execution: node, inputs, outcome, output port
    ctx,      \* the host context (a dict); ctx['events'][name] is a list
    pc,       \* where the event loop is: idle, or inside command_callback
    cur,      \* the local variables of the running command_callback
    ports,    \* listener -> value of its payload port
    calls,    \* what command_callback did to the listeners, this command
    tasks,    \* the event loop's queue of tasks created and not yet started
    received, \* the update the application was handed last
    sent,     \* bot.send_message calls started since that update
    parsed    \* the output ports of TelegramParsePayload

vars == <<apps, last, ctx, pc, cur, ports, calls, tasks, received, sent, parsed>>

(***************************************************************************)
(* Python values.  Every value carries its type, so that None, a string,   *)
(* an int, a dict and an object can be told apart and compared.            *)
(***************************************************************************)
None == [t |-> "none"]
PyStr(s) == [t |-> "str", v |-> s]
PyInt(n) == [t |-> "int", v |-> n]
PyDict(f) == [t |-> "dict", v |-> f]
AppRef(n) == [t |-> "app", v |-> n]
EmptyDict == PyDict([k \in {} |-> None])

\* bool(x) as Python computes it for the values the nodes test with `not x`
Truthy(x) ==
    CASE x.t = "none" -> FALSE
      [] x.t = "str" -> Len(x.v) > 0
      [] x.t = "int" -> x.v # 0
      [] x.t = "dict" -> DOMAIN x.v # {}
      [] OTHER -> TRUE

\* dict.get(key): None when the key is missing
Get(d, k) == IF k \in DOMAIN d.v THEN d.v[k] ELSE None

Whitespace == {" "}

RECURSIVE LStrip(_)
LStrip(s) ==
    IF s = <<>> THEN <<>>
    ELSE IF Head(s) \in Whitespace THEN LStrip(Tail(s)) ELSE s

RECURSIVE RStrip(_)
RStrip(s) ==
    IF s = <<>> THEN <<>>
    ELSE IF s[Len(s)] \in Whitespace THEN RStrip(SubSeq(s, 1, Len(s) - 1)) ELSE s

\* str.strip()
Strip(x) == PyStr(RStrip(LStrip(x.v)))

\* str.join(sep, parts)
RECURSIVE Join(_, _)
Join(sep, parts) ==
    IF parts = <<>> THEN <<>>
    ELSE IF Len(parts) = 1 THEN parts[1]
    ELSE parts[1] \o sep \o Join(sep, Tail(parts))

\* str.split(): the maximal runs of non-whitespace characters
RECURSIVE SplitFrom(_, _)
SplitFrom(s, word) ==
    IF s = <<>> THEN (IF word = <<>> THEN <<>> ELSE <<word>>)
    ELSE IF Head(s) \in Whitespace
         THEN (IF word = <<>> THEN <<>> ELSE <<word>>) \o SplitFrom(Tail(s), <<>>)
         ELSE SplitFrom(Tail(s), Append(word, Head(s)))
Split(s) == SplitFrom(s, <<>>)

(***************************************************************************)
(* The graph phase.                                                        *)
(***************************************************************************)
MaxHandlers == 2

\* the TelegramInitApp nodes of the graph; each is executed at most once
InitNodes == {1, 2}

NotBuilt == [built |-> FALSE, handlers |-> <<>>, polling |-> FALSE]

Tokens == {None, PyStr(<<>>), PyStr(<<"t">>)}
CommandNames ==
    {None, PyStr(<<>>), PyStr(<<" ", " ">>), PyStr(<<" ", "g", " ">>)}
EventNames ==
    {None, PyStr(<<>>), PyStr(<<" ">>), PyStr(<<"e", " ">>), PyStr(<<"f">>)}
AppInputs == {None} \cup {AppRef(n) : n \in InitNodes}

EchoHandler == [kind |-> "message", filter |-> "TEXT & ~COMMAND", callback |-> "echo"]
CommandHandler(cmd, evt) ==
    [kind |-> "command", command |-> cmd.v, callback |-> "command_callback",
     cmd |-> cmd, evt |-> evt]

Polling == \E n \in InitNodes : apps[n].polling

\* Application.add_handler(handler): appended to the handlers of group 0
\* (variant: the handler is put before the ones already attached)
AddHandlerInFront(app, handler) ==
    [apps EXCEPT ![app.v].handlers = <<handler>> \o @]
AddHandler(app, handler) ==
    [apps EXCEPT ![app.v].handlers = Append(@, handler)]

Raised(node, in) ==
    last' = [node |-> node, in |-> in, outcome |-> "raised", out |-> None]
Returned(node, in, out) ==
    last' = [node |-> node, in |-> in, outcome |-> "returned", out |-> out]

BotVars == <<ctx, pc, cur, ports, calls, tasks, received, sent, parsed>>

\* TelegramInitApp.execute
\* (variant: only None counts as a missing token)
TokenNotNone(token) == token # None
TokenPresent(token) == Truthy(token)
InitAppExecute(n, token) ==
    /\ ~Polling
    /\ ~apps[n].built
    /\ IF ~TokenPresent(token)
       THEN /\ Raised("TelegramInitApp", <<token>>)
            /\ UNCHANGED apps
       ELSE /\ apps' = [apps EXCEPT ![n] = [built |-> TRUE, handlers |-> <<>>,
                                            polling |-> FALSE]]
            /\ Returned("TelegramInitApp", <<token>>, AppRef(n))
    /\ UNCHANGED BotVars

\* an Application object exists only once its TelegramInitApp node has run
Wired(app) == IF app = None THEN TRUE ELSE apps[app.v].built
CanAttach(app) ==
    IF app = None THEN TRUE ELSE Len(apps[app.v].handlers) < MaxHandlers

\* TelegramAddEchoHandler.execute
AddEchoHandlerExecute(app) ==
    /\ ~Polling
    /\ Wired(app) /\ CanAttach(app)
    /\ IF app = None
       THEN /\ Raised("TelegramAddEchoHandler", <<app>>)
            /\ UNCHANGED apps
       ELSE /\ apps' = AddHandler(app, EchoHandler)
            /\ Returned("TelegramAddEchoHandler", <<app>>, app)
    /\ UNCHANGED BotVars

\* TelegramRunApp.execute
RunAppExecute(app) ==
    /\ ~Polling
    /\ Wired(app)
    /\ IF ~Truthy(app)
       THEN /\ Raised("TelegramRunApp", <<app>>)
            /\ UNCHANGED apps
       ELSE /\ apps' = [apps EXCEPT ![app.v].polling = TRUE]
            /\ Returned("TelegramRunApp", <<app>>, None)
    /\ UNCHANGED BotVars

\* TelegramAddCommandEvent.execute
\* (variant: the event name is not looked at)
CommandInputsPresentNoEvent(app, cmd, evt) == Truthy(app) /\ Truthy(cmd)
CommandInputsPresent(app, cmd, evt) == Truthy(app) /\ Truthy(cmd) /\ Truthy(evt)
AddCommandEventExecute(app, command_name, event_name) ==
    LET in == <<app, command_name, event_name>> IN
    /\ ~Polling
    /\ Wired(app) /\ CanAttach(app)
    /\ IF command_name = None \/ event_name = None
       THEN \* None has no strip()
            /\ Raised("TelegramAddCommandEvent", in)
            /\ UNCHANGED apps
       ELSE LET cmd == Strip(command_name)
                evt == Strip(event_name)
            IN  IF ~CommandInputsPresent(app, cmd, evt)
                THEN /\ Raised("TelegramAddCommandEvent", in)
                     /\ UNCHANGED apps
                ELSE /\ apps' = AddHandler(app, CommandHandler(cmd, evt))
                     /\ Returned("TelegramAddCommandEvent", in, app)
    /\ UNCHANGED BotVars

(***************************************************************************)
(* The polling phase: updates, handlers, the command event, the reply.     *)
(***************************************************************************)
MaxTasks == 2

\* the OnEvent components of the host graph; each registers itself once
Listeners == {"L1", "L2"}

User(id, first_name) == [t |-> "user", id |-> PyInt(id), first_name |-> first_name]
Message(message_id, chat_id, from_user, text) ==
    [message_id |-> PyInt(message_id), chat |-> [id |-> PyInt(chat_id)],
     from_user |-> from_user, text |-> text]
NewMessage(m) == [t |-> "update", message |-> m, edited_message |-> None]
EditedMessage(m) == [t |-> "update", message |-> None, edited_message |-> m]

Al == User(5, PyStr(<<"A", "l">>))
Anon == User(6, None)

\* the updates the bot is sent
Updates ==
    { NewMessage(Message(11, 7, Al, PyStr(<<"/", "g">>))),
      NewMessage(Message(12, 8, None, PyStr(<<"/", "g", " ", "x", " ", " ", "y">>))),
      EditedMessage(Message(13, 7, Anon, PyStr(<<"/", "g", " ", "x">>))),
      NewMessage(Message(14, 7, Al, PyStr(<<"/", "h">>))),
      NewMessage(Message(15, 8, Al, PyStr(<<"y", "o">>))),
      EditedMessage(Message(16, 7, Al, PyStr(<<"y", "o">>))),
      NewMessage(Message(17, 7, Al, None)) }

\* Update.effective_message, effective_chat, effective_user
effective_message(u) == IF u.message # None THEN u.message ELSE u.edited_message
effective_chat(u) == effective_message(u).chat
effective_user(u) == effective_message(u).from_user

\* filters.TEXT, filters.COMMAND
FilterText(u) == Truthy(effective_message(u).text)
FilterCommand(u) == FilterText(u) /\ Head(effective_message(u).text.v) = "/"

\* CommandHandler.check_update: the command is the first word without its slash
UpdateCommand(u) == Tail(Head(Split(effective_message(u).text.v)))
\* context.args: the words after the command
UpdateArgs(u) == Tail(Split(effective_message(u).text.v))

\* Handler.check_update
CheckUpdate(h, u) ==
    IF h.kind = "message"
    THEN FilterText(u) /\ ~FilterCommand(u)
    ELSE FilterCommand(u) /\ UpdateCommand(u) = h.command

\* Application.process_update: the first handler of the group that accepts
Matching(hs, u) == {i \in 1..Len(hs) : CheckUpdate(hs[i], u)}
FirstMatching(hs, u) == CHOOSE i \in Matching(hs, u) : \A j \in Matching(hs, u) : i <= j

TheApp == CHOOSE n \in InitNodes : apps[n].polling

\* bot.send_message(chat_id, text, parse_mode, reply_to_message_id)
SendMessage(by, chat_id, text, parse_mode, reply_to) ==
    [by |-> by, chat_id |-> chat_id, text |-> text, parse_mode |-> parse_mode,
     reply_to_message_id |-> reply_to]

\* echo(update, context)
\* (variant: echoes the effective message, so edited messages too)
EchoEffectiveMessage(u) ==
    IF Truthy(effective_message(u).text)
    THEN <<SendMessage("echo", effective_chat(u).id, effective_message(u).text, None, None)>>
    ELSE <<>>
Echo(u) ==
    IF u.message # None /\ Truthy(u.message.text)
    THEN <<SendMessage("echo", effective_chat(u).id, u.message.text, None, None)>>
    ELSE <<>>

\* command_callback: message_text
\* (variant: the arguments are joined without a separator)
MessageTextNoSeparator(args) == PyStr(Join(<<>>, args))
MessageText(args) == IF args # <<>> THEN PyStr(Join(<<" ">>, args)) ELSE PyStr(<<>>)

\* command_callback: the payload dict
Payload(cmd, u) ==
    PyDict([k \in {"command_name", "message_text", "chat_id", "user_id", "update"} |->
        CASE k = "command_name" -> cmd
          [] k = "message_text" -> MessageText(UpdateArgs(u))
          [] k = "chat_id" -> effective_chat(u).id
          [] k = "user_id" -> IF effective_user(u) # None THEN effective_user(u).id ELSE None
          [] k = "update" -> u])

\* ctx.get('events', {}).get(evt, [])
\* (variants: the listeners of every name; the listeners there were when the
\* handler was attached, which is none in the polling phase modelled here)
RECURSIVE Flatten(_, _)
Flatten(f, keys) ==
    IF keys = {} THEN <<>>
    ELSE LET k == CHOOSE x \in keys : TRUE IN f[k] \o Flatten(f, keys \ {k})
ListenersOfAnyName(c, evt) ==
    IF "events" \in DOMAIN c.v
    THEN Flatten(c.v["events"].v, DOMAIN c.v["events"].v)
    ELSE <<>>
ListenersWhenAttached(c, evt) == <<>>
ListenersOf(c, evt) ==
    IF "events" \in DOMAIN c.v
    THEN (IF evt \in DOMAIN c.v["events"].v THEN c.v["events"].v[evt] ELSE <<>>)
    ELSE <<>>

Registered(l) ==
    /\ "events" \in DOMAIN ctx.v
    /\ \E e \in DOMAIN ctx.v["events"].v :
          \E i \in 1..Len(ctx.v["events"].v[e]) : ctx.v["events"].v[e][i] = l

ListenerNames == {PyStr(<<"e">>), PyStr(<<"f">>)}

\* the host's OnEvent: ctx.setdefault('events', {}).setdefault(name, []).append(l)
RegisterListener(l, name) ==
    /\ Polling /\ pc = "idle"
    /\ ~Registered(l)
    /\ LET events == IF "events" \in DOMAIN ctx.v THEN ctx.v["events"].v
                     ELSE [k \in {} |-> <<>>]
           old == IF name \in DOMAIN events THEN events[name] ELSE <<>>
           new == [k \in DOMAIN events \cup {name} |->
                      IF k = name THEN Append(old, l) ELSE events[k]]
       IN  ctx' = PyDict([k \in {"events"} |-> PyDict(new)])
    /\ UNCHANGED <<apps, last, pc, cur, ports, calls, tasks, received, sent, parsed>>

Without(list, l) == SelectSeq(list, LAMBDA x : x # l)

\* the host removes a listener from the list it is in
RemoveListener(l) ==
    /\ Polling /\ pc = "idle"
    /\ Registered(l)
    /\ ctx' = PyDict([k \in {"events"} |->
                 PyDict([e \in DOMAIN ctx.v["events"].v |->
                            Without(ctx.v["events"].v[e], l)])])
    /\ UNCHANGED <<apps, last, pc, cur, ports, calls, tasks, received, sent, parsed>>

\* the application receives an update and runs the first handler accepting it
ReceiveUpdate(u) ==
    /\ Polling /\ pc = "idle"
    /\ received' = u
    /\ LET hs == apps[TheApp].handlers IN
       IF Matching(hs, u) = {}
       THEN /\ sent' = <<>>
            /\ calls' = <<>>
            /\ UNCHANGED <<pc, cur>>
       ELSE LET h == hs[FirstMatching(hs, u)] IN
            IF h.kind = "message"
            THEN /\ sent' = Echo(u)
                 /\ calls' = <<>>
                 /\ UNCHANGED <<pc, cur>>
            ELSE /\ cur' = [payload |-> Payload(h.cmd, u), evt |-> h.evt, i |-> 1]
                 /\ pc' = "for"
                 /\ sent' = <<>>
                 /\ calls' = <<>>
    /\ UNCHANGED <<apps, last, ctx, ports, tasks, parsed>>

\* command_callback: for listener in listeners: listener.payload.value = payload
CallbackSetPayload ==
    /\ pc = "for"
    /\ cur.i <= Len(ListenersOf(ctx, cur.evt))
    /\ LET l == ListenersOf(ctx, cur.evt)[cur.i] IN
       /\ ports' = [ports EXCEPT ![l] = cur.payload]
       /\ calls' = Append(calls, <<"payload", l>>)
    /\ pc' = "do"
    /\ UNCHANGED <<apps, last, ctx, cur, tasks, received, sent, parsed>>

\* command_callback: SubGraphExecutor(listener).do(ctx) is entered
CallbackDo ==
    /\ pc = "do"
    /\ calls' = Append(calls, <<"start", ListenersOf(ctx, cur.evt)[cur.i]>>)
    /\ pc' = "body"
    /\ UNCHANGED <<apps, last, ctx, cur, ports, tasks, received, sent, parsed>>

\* SubGraphExecutor(listener).do(ctx) returns; the loop goes to the next listener
CallbackDone ==
    /\ pc = "body"
    /\ calls' = Append(calls, <<"end", ListenersOf(ctx, cur.evt)[cur.i]>>)
    /\ cur' = [cur EXCEPT !.i = @ + 1]
    /\ pc' = "for"
    /\ UNCHANGED <<apps, last, ctx, ports, tasks, received, sent, parsed>>

\* command_callback returns to the event loop
CallbackReturn ==
    /\ pc = "for"
    /\ cur.i > Len(ListenersOf(ctx, cur.evt))
    /\ pc' = "idle"
    /\ cur' = None
    /\ calls' = Append(calls, <<"return", "">>)
    /\ UNCHANGED <<apps, last, ctx, ports, tasks, received, sent, parsed>>

\* TelegramParsePayload.execute
\* (variant: first_name is passed on without the `or ""`)
ParsePayloadOutputsNoDefault(event_payload) ==
    LET payload == IF Truthy(event_payload) THEN event_payload ELSE EmptyDict
        update == Get(payload, "update")
    IN  [chat_id |-> Get(payload, "chat_id"),
         user_id |-> Get(payload, "user_id"),
         message_text |-> Get(payload, "message_text"),
         update_obj |-> Get(payload, "update"),
         command_name |-> Get(payload, "command_name"),
         first_name |->
            IF Truthy(update) /\ Truthy(effective_user(update))
            THEN effective_user(update).first_name
            ELSE PyStr(<<>>)]
ParsePayloadOutputs(event_payload) ==
    LET payload == IF Truthy(event_payload) THEN event_payload ELSE EmptyDict
        update == Get(payload, "update")
    IN  [chat_id |-> Get(payload, "chat_id"),
         user_id |-> Get(payload, "user_id"),
         message_text |-> Get(payload, "message_text"),
         update_obj |-> Get(payload, "update"),
         command_name |-> Get(payload, "command_name"),
         first_name |->
            IF Truthy(update) /\ Truthy(effective_user(update))
            THEN (IF Truthy(effective_user(update).first_name)
                  THEN effective_user(update).first_name ELSE PyStr(<<>>))
            ELSE PyStr(<<>>)]

ParsePayloadExecute(event_payload) ==
    /\ parsed' = [in |-> event_payload, out |-> ParsePayloadOutputs(event_payload)]
    /\ UNCHANGED <<apps, last, ctx, pc, cur, ports, calls, tasks, received, sent>>

\* loop.create_task(coro): the task joins the loop's queue, to be started later
\* (variant: the new task overtakes the waiting ones)
CreateTaskInFront(coro) == tasks' = <<coro>> \o tasks
CreateTask(coro) == tasks' = Append(tasks, coro)

\* TelegramReplyToMessageEvent.execute: the three early returns
\* (variant: the application is not looked at)
ReplyCanSendIgnoringApp(app, payload) ==
    Truthy(payload) /\ Truthy(Get(payload, "update"))
ReplyCanSend(app, payload) ==
    Truthy(app) /\ Truthy(payload) /\ Truthy(Get(payload, "update"))

\* TelegramReplyToMessageEvent.execute: what _send_reply will send
ReplySend(update, reply_text) ==
    SendMessage("reply", effective_chat(update).id, reply_text, "HTML",
                effective_message(update).message_id)

\* TelegramReplyToMessageEvent.execute
ReplyToMessageEventExecute(app, payload, reply_text) ==
    LET in == <<app, payload, reply_text>> IN
    /\ Wired(app)
    /\ IF ~ReplyCanSend(app, payload)
       THEN /\ Returned("TelegramReplyToMessageEvent", in, None)
            /\ UNCHANGED <<calls, tasks>>
       ELSE /\ Len(tasks) < MaxTasks
            /\ CreateTask(ReplySend(Get(payload, "update"), reply_text))
            /\ calls' = (IF pc = "body" THEN Append(calls, <<"create_task", reply_text>>)
                         ELSE calls)
            /\ Returned("TelegramReplyToMessageEvent", in, None)
    /\ UNCHANGED <<apps, ctx, pc, cur, ports, received, sent, parsed>>

\* the event loop starts the next task: _send_reply runs up to its await
RunTask ==
    /\ Polling /\ pc = "idle"
    /\ tasks # <<>>
    /\ sent' = Append(sent, Head(tasks))
    /\ tasks' = Tail(tasks)
    /\ UNCHANGED <<apps, last, ctx, pc, cur, ports, calls, received, parsed>>

\* what a listener's subgraph can wire into event_payload besides the payload
\* its OnEvent was handed
NoUpdatePayload == PyDict([k \in {"chat_id"} |-> PyInt(7)])
AbsentPayloads == {None, EmptyDict, NoUpdatePayload}
TextA == PyStr(<<"a">>)
TextB == PyStr(<<"b">>)

\* the payload port of the listener whose subgraph is running
BodyPort == ports[ListenersOf(ctx, cur.evt)[cur.i]]

\* a TelegramParsePayload node of the running listener's subgraph is executed
BodyParse(payloads) ==
    /\ pc = "body"
    /\ \E p \in payloads \cup {BodyPort} : ParsePayloadExecute(p)

\* a TelegramReplyToMessageEvent node of the running subgraph is executed
BodyReply(applications, payloads, texts) ==
    /\ pc = "body"
    /\ \E app \in applications, text \in texts, p \in payloads \cup {BodyPort} :
          ReplyToMessageEventExecute(app, p, text)

\* a TelegramReplyToMessageEvent node of the main graph is executed
GraphReply(app, payload, text) ==
    /\ ~Polling
    /\ ReplyToMessageEventExecute(app, payload, text)

Init ==
    /\ apps = [n \in InitNodes |-> NotBuilt]
    /\ last = [node |-> "none", in |-> <<>>, outcome |-> "returned", out |-> None]
    /\ ctx = EmptyDict
    /\ pc = "idle"
    /\ cur = None
    /\ ports = [l \in Listeners |-> None]
    /\ calls = <<>>
    /\ tasks = <<>>
    /\ received = None
    /\ sent = <<>>
    /\ parsed = None

Next ==
    \/ \E n \in InitNodes, token \in Tokens : InitAppExecute(n, token)
    \/ \E app \in AppInputs : AddEchoHandlerExecute(app)
    \/ \E app \in AppInputs, c \in CommandNames, e \in EventNames :
          AddCommandEventExecute(app, c, e)
    \/ \E app \in AppInputs : RunAppExecute(app)
    \/ \E app \in AppInputs, p \in AbsentPayloads : GraphReply(app, p, TextA)

Spec == Init /\ [][Next]_vars

(***************************************************************************)
(* The polling phase starts in a state the graph phase leaves: application *)
(* 1 built, its handlers attached, TelegramRunApp blocked in run_polling.  *)
(* Spec reaches each of the handler lists used below.  Each specification  *)
(* of the polling phase draws the updates and the node inputs from the     *)
(* sets its next-state relation names.                                     *)
(***************************************************************************)
HandlerGE == CommandHandler(PyStr(<<"g">>), PyStr(<<"e">>))
HandlerGF == CommandHandler(PyStr(<<"g">>), PyStr(<<"f">>))

BotStart(handlerLists, contexts) ==
    /\ \E hs \in handlerLists :
          apps = [n \in InitNodes |->
                    IF n = 1 THEN [built |-> TRUE, handlers |-> hs, polling |-> TRUE]
                    ELSE NotBuilt]
    /\ last = [node |-> "TelegramRunApp", in |-> <<AppRef(1)>>, outcome |-> "returned",
               out |-> None]
    /\ ctx \in contexts
    /\ pc = "idle"
    /\ cur = None
    /\ ports = [l \in Listeners |-> None]
    /\ calls = <<>>
    /\ tasks = <<>>
    /\ received = None
    /\ sent = <<>>
    /\ parsed = None

\* the context after L1 and then L2 registered for event "e" (SpecBot reaches it)
BothOnE ==
    PyDict([k \in {"events"} |-> PyDict([e \in {PyStr(<<"e">>)} |-> <<"L1", "L2">>])])

CommandUpdates == {u \in Updates : FilterCommand(u) /\ UpdateCommand(u) = <<"g">>}
TwoCommands ==
    {NewMessage(Message(11, 7, Al, PyStr(<<"/", "g">>))),
     NewMessage(Message(12, 8, None, PyStr(<<"/", "g", " ", "x", " ", " ", "y">>)))}

\* SpecBot: updates are dispatched, the command event calls the listeners
InitBot ==
    BotStart({<<>>, <<EchoHandler>>, <<HandlerGE>>, <<EchoHandler, HandlerGF>>,
              <<HandlerGE, EchoHandler>>, <<HandlerGE, HandlerGF>>,
              <<EchoHandler, EchoHandler>>}, {EmptyDict})

NextBot ==
    \/ \E l \in Listeners, name \in ListenerNames : RegisterListener(l, name)
    \/ \E l \in Listeners : RemoveListener(l)
    \/ \E u \in Updates : ReceiveUpdate(u)
    \/ CallbackSetPayload
    \/ CallbackDo
    \/ CallbackDone
    \/ CallbackReturn

SpecBot == InitBot /\ [][NextBot]_vars

\* SpecReply: the listeners' subgraphs execute TelegramReplyToMessageEvent
InitReply == BotStart({<<HandlerGE>>}, {BothOnE})

NextReply ==
    \/ \E u \in TwoCommands : ReceiveUpdate(u)
    \/ CallbackSetPayload
    \/ CallbackDo
    \/ BodyReply({None, AppRef(1)}, AbsentPayloads, {TextA, TextB})
    \/ CallbackDone
    \/ CallbackReturn
    \/ RunTask

SpecReply == InitReply /\ [][NextReply]_vars

\* SpecParse: the listeners' subgraphs execute TelegramParsePayload
NextParse ==
    \/ \E u \in CommandUpdates : ReceiveUpdate(u)
    \/ CallbackSetPayload
    \/ CallbackDo
    \/ BodyParse(AbsentPayloads)
    \/ CallbackDone
    \/ CallbackReturn

SpecParse == InitReply /\ [][NextParse]_vars

(***************************************************************************)
(* The properties checked.                                                 *)
(***************************************************************************)
InitNode == "TelegramInitApp"
EchoNode == "TelegramAddEchoHandler"
RunNode == "TelegramRunApp"
CommandNode == "TelegramAddCommandEvent"
ReplyNode == "TelegramReplyToMessageEvent"

\* an input that is None or empty
Absent(x) == x = None \/ x = PyStr(<<>>) \/ x = EmptyDict
\* a name that is None, empty or only whitespace
Blank(x) == IF x = None THEN TRUE ELSE \A i \in 1..Len(x.v) : x.v[i] = " "

\* the last execution was handed one of the node's required inputs absent
RequiredAbsent(nodes) ==
    /\ last.node \in nodes
    /\ \/ last.node \in {InitNode, EchoNode, RunNode, ReplyNode} /\ Absent(last.in[1])
       \/ last.node = CommandNode /\ \E i \in 1..3 : Absent(last.in[i])

\* C1, as claimed: an execution of any of the five nodes with a required input
\* absent (None or empty) ends by raising and never completes normally.
C1_AbsentInputRaises ==
    RequiredAbsent({InitNode, EchoNode, RunNode, CommandNode, ReplyNode})
        => last.outcome = "raised"

\* C1, amended: TelegramInitApp, TelegramAddEchoHandler, TelegramRunApp and
\* TelegramAddCommandEvent raise when a required input is absent;
\* TelegramReplyToMessageEvent does not: with its application absent it returns
\* normally, having scheduled nothing.
C1_AbsentInputRaisesExceptReply ==
    /\ RequiredAbsent({InitNode, EchoNode, RunNode, CommandNode})
          => last.outcome = "raised"
    /\ RequiredAbsent({ReplyNode}) => last.outcome = "returned" /\ tasks = <<>>

C1_Witness ==
    /\ last.node = CommandNode
    /\ last.in[1] # None /\ ~Absent(last.in[2]) /\ last.in[3] = PyStr(<<>>)
    /\ last.outcome = "raised"

\* the execution this step made failed the presence check of its node
FailsPresenceCheck(e) ==
    \/ e.node = InitNode /\ Absent(e.in[1])
    \/ e.node = RunNode /\ e.in[1] = None
    \/ e.node = CommandNode /\ (e.in[1] = None \/ Blank(e.in[2]) \/ Blank(e.in[3]))

\* C8: when TelegramInitApp, TelegramRunApp or TelegramAddCommandEvent fails its
\* presence check, the step changes nothing: no application is built, no handler
\* is added, polling is not started and the output port stays unwritten.
C8_FailedCheckChangesNothing ==
    [][FailsPresenceCheck(last') => apps' = apps /\ last'.out = None /\ tasks' = tasks]_vars

C8_Witness ==
    /\ last.node = CommandNode /\ last.outcome = "raised"
    /\ last.in[1] = AppRef(1) /\ last.in[2] = PyStr(<<" ", "g", " ">>)
    /\ last.in[3] = PyStr(<<" ">>)
    /\ Len(apps[1].handlers) = 1

\* s is raw without the whitespace at its two ends
IsStripOf(raw, s) ==
    /\ s # <<>> => s[1] # " " /\ s[Len(s)] # " "
    /\ \E i \in 0..Len(raw) :
          /\ i + Len(s) <= Len(raw)
          /\ \A k \in 1..Len(raw) :
                IF k > i /\ k <= i + Len(s) THEN raw[k] = s[k - i] ELSE raw[k] = " "

\* the execution this step made is an attach with valid inputs
ValidAttach(e) ==
    \/ e.node = EchoNode /\ e.in[1] # None
    \/ e.node = CommandNode /\ e.in[1] # None /\ ~Blank(e.in[2]) /\ ~Blank(e.in[3])

\* C7: TelegramAddEchoHandler and TelegramAddCommandEvent, given valid inputs,
\* add exactly one handler at the end of the given application's handlers, leave
\* the handlers already attached and every other application as they were, and
\* output the same application; the command handler is bound to the stripped
\* command name.
C7_AttachAddsOneHandler ==
    [][ValidAttach(last') =>
          LET a == last'.in[1].v
              old == apps[a].handlers
              new == apps'[a].handlers
          IN  /\ last'.outcome = "returned"
              /\ last'.out = last'.in[1]
              /\ Len(new) = Len(old) + 1
              /\ SubSeq(new, 1, Len(old)) = old
              /\ apps'[a].polling = apps[a].polling /\ apps'[a].built = apps[a].built
              /\ \A n \in InitNodes \ {a} : apps'[n] = apps[n]
              /\ IF last'.node = EchoNode
                 THEN new[Len(new)].kind = "message" /\ new[Len(new)].callback = "echo"
                 ELSE /\ new[Len(new)].kind = "command"
                      /\ IsStripOf(last'.in[2].v, new[Len(new)].command)
                      /\ IsStripOf(last'.in[3].v, new[Len(new)].evt.v)
       ]_vars

C7_Witness ==
    /\ last.node = CommandNode /\ last.outcome = "returned"
    /\ last.in = <<AppRef(2), PyStr(<<" ", "g", " ">>), PyStr(<<"e", " ">>)>>
    /\ Len(apps[2].handlers) = 2
    /\ apps[2].handlers[1] = EchoHandler
    /\ apps[2].handlers[2].command = <<"g">>
    /\ apps[1].built /\ apps[1].handlers # <<>>

\* the listeners the host context holds under a name, in the order of its list
ContextListeners(c, name) ==
    IF "events" \notin DOMAIN c.v THEN <<>>
    ELSE IF name \notin DOMAIN c.v["events"].v THEN <<>>
    ELSE c.v["events"].v[name]

\* what one command does to the listeners ls: each in turn has its payload set,
\* its body started and its body finished; then the callback returns
RECURSIVE CallsFor(_)
CallsFor(ls) ==
    IF ls = <<>> THEN << <<"return", "">> >>
    ELSE << <<"payload", Head(ls)>>, <<"start", Head(ls)>>, <<"end", Head(ls)>> >>
         \o CallsFor(Tail(ls))

IsPrefix(a, b) == Len(a) <= Len(b) /\ SubSeq(b, 1, Len(a)) = a

\* the polling application has a command handler for the command of update u
HandlesCommand(u) ==
    /\ u # None
    /\ Truthy(effective_message(u).text)
    /\ \E i \in 1..Len(apps[1].handlers) :
          /\ apps[1].handlers[i].kind = "command"
          /\ LET text == effective_message(u).text.v
                 name == <<"/">> \o apps[1].handlers[i].command
             IN  /\ IsPrefix(name, text)
                 /\ Len(text) > Len(name) => text[Len(name) + 1] = " "

\* C2: a received command invokes the listeners registered under the handler's
\* event name, each exactly once, in list order, one after the other (payload,
\* then body start, then body end), all before the callback returns; listeners
\* under other names are not invoked, and with no 'events' entry or no listener
\* the callback just returns.
C2_ListenersInvokedInOrder ==
    [][/\ pc' # "idle" =>
             /\ IsPrefix(calls', CallsFor(ContextListeners(ctx', cur'.evt)))
             /\ Len(calls') < Len(CallsFor(ContextListeners(ctx', cur'.evt)))
       /\ pc # "idle" /\ pc' = "idle" =>
             calls' = CallsFor(ContextListeners(ctx, cur.evt))
       /\ pc' = "idle" /\ HandlesCommand(received') =>
             calls' # <<>> /\ calls'[Len(calls')] = <<"return", "">>
       /\ pc' = "idle" /\ ~HandlesCommand(received') => calls' = <<>>
      ]_vars

C2_Witness ==
    /\ pc = "idle"
    /\ calls = CallsFor(<<"L2", "L1">>)
    /\ ContextListeners(ctx, PyStr(<<"e">>)) = <<"L2", "L1">>

C2_WitnessOtherName ==
    /\ pc = "idle"
    /\ calls = CallsFor(<<"L2">>)
    /\ ContextListeners(ctx, PyStr(<<"f">>)) = <<"L1">>
    /\ ContextListeners(ctx, PyStr(<<"e">>)) = <<"L2">>

C2_WitnessNoListener ==
    /\ pc = "idle" /\ ctx = EmptyDict /\ calls = CallsFor(<<>>)

\* m is the words of args with one space between each two
RECURSIVE Offset(_, _)
Offset(args, k) == IF k = 1 THEN 0 ELSE Offset(args, k - 1) + Len(args[k - 1]) + 1
JoinedBySingleSpaces(m, args) ==
    IF args = <<>> THEN m = <<>>
    ELSE /\ Len(m) = Offset(args, Len(args)) + Len(args[Len(args)])
         /\ \A k \in 1..Len(args) :
               /\ SubSeq(m, Offset(args, k) + 1, Offset(args, k) + Len(args[k])) = args[k]
               /\ k > 1 => m[Offset(args, k)] = " "

\* the message of an update, new or edited
MessageOf(u) == IF u.message = None THEN u.edited_message ELSE u.message

\* C3: while a listener's body runs, its payload port holds a dict of exactly the
\* five keys, built from the command being handled: the handler's stripped
\* command name, the arguments joined by single spaces, the chat id, the user id
\* or None, and the update itself; never the payload of an earlier command.
C3_PayloadOfThisCommand ==
    pc = "body" =>
        LET p == ports[calls[Len(calls)][2]] IN
        /\ p.t = "dict"
        /\ DOMAIN p.v = {"command_name", "message_text", "chat_id", "user_id", "update"}
        /\ p.v["update"] = received
        /\ \E i \in 1..Len(apps[1].handlers) :
              /\ apps[1].handlers[i].kind = "command"
              /\ apps[1].handlers[i].evt = cur.evt
              /\ apps[1].handlers[i].cmd = p.v["command_name"]
        /\ IsStripOf(p.v["command_name"].v, p.v["command_name"].v)
        /\ p.v["message_text"].t = "str"
        /\ JoinedBySingleSpaces(p.v["message_text"].v, UpdateArgs(received))
        /\ p.v["chat_id"] = MessageOf(received).chat.id
        /\ p.v["user_id"] = (IF MessageOf(received).from_user = None THEN None
                             ELSE MessageOf(received).from_user.id)

C3_Witness ==
    /\ pc = "body"
    /\ calls[Len(calls)] = <<"start", "L1">>
    /\ ports["L1"].v["message_text"] = PyStr(<<"x", " ", "y">>)
    /\ ports["L1"].v["user_id"] = None
    /\ ports["L2"] # None
    /\ ports["L2"].v["update"] # received
    /\ ports["L2"].v["message_text"] = PyStr(<<>>)

\* the listeners the host context holds under a name, as a set
RegisteredUnder(c, name) ==
    {l \in Listeners : \E i \in 1..Len(ContextListeners(c, name)) :
                          ContextListeners(c, name)[i] = l}
Started(log) == {log[k][2] : k \in {j \in 1..Len(log) : log[j][1] = "start"}}

\* C9: the listeners a command fires are those in the host context when the
\* command is handled, whatever the context held when the handler was attached:
\* one registered since is invoked, one removed since is not.
C9_ListenersLookedUpPerCommand ==
    [][pc # "idle" /\ pc' = "idle" => Started(calls') = RegisteredUnder(ctx, cur.evt)]_vars

C9_Witness ==
    /\ pc = "idle"
    /\ calls # <<>> /\ calls[Len(calls)] = <<"return", "">>
    /\ Started(calls) = {"L2"}
    /\ ports["L2"].v["update"] = received
    /\ ports["L1"] # None
    /\ ports["L1"].v["update"] # received
    /\ ~Registered("L1")

\* a new message with text that does not start with '/'
PlainText(u) ==
    /\ u.message # None
    /\ u.message.text # None
    /\ u.message.text.v # <<>>
    /\ u.message.text.v[1] # "/"
EchoAttached == \E i \in 1..Len(apps[1].handlers) : apps[1].handlers[i] = EchoHandler
EchoSends == SelectSeq(sent, LAMBDA m : m.by = "echo")

\* C5: once the echo handler is attached, a received text message that is not a
\* command is answered by exactly one message of the same text to the same chat;
\* a command, or an update whose message has no text, makes the echo handler
\* send nothing.
C5_EchoesPlainText ==
    EchoAttached /\ received # None =>
        IF PlainText(received)
        THEN /\ Len(EchoSends) = 1
             /\ EchoSends[1].text = received.message.text
             /\ EchoSends[1].chat_id = received.message.chat.id
        ELSE EchoSends = <<>>

C5_Witness ==
    /\ apps[1].handlers = <<EchoHandler, EchoHandler>>
    /\ received # None
    /\ PlainText(received)
    /\ Len(sent) = 1
    /\ sent[1].text = PyStr(<<"y", "o">>)

\* the inputs in of a TelegramReplyToMessageEvent execution are all present:
\* the application, the payload and the payload's 'update' entry
ReplyInputsPresent(in) ==
    /\ in[1] # None
    /\ in[2] # None
    /\ "update" \in DOMAIN in[2].v
    /\ in[2].v["update"] # None

\* the send_message call the claim expects of a reply with inputs in
ExpectedReply(in) ==
    [by |-> "reply",
     chat_id |-> MessageOf(in[2].v["update"]).chat.id,
     text |-> in[3],
     parse_mode |-> "HTML",
     reply_to_message_id |-> MessageOf(in[2].v["update"]).message_id]

\* C4: TelegramReplyToMessageEvent returns normally in every case; it creates
\* exactly one task when application, payload and the payload's update are all
\* present and none otherwise; nothing is sent before it returns; the task, when
\* the loop starts it, sends to the update's chat, with the given text, HTML
\* parse mode, as a reply to the update's message.
C4_ReplySchedulesOneSend ==
    [][/\ last' # last /\ last'.node = ReplyNode =>
             /\ last'.outcome = "returned"
             /\ sent' = sent
             /\ IF ReplyInputsPresent(last'.in)
                THEN tasks' = Append(tasks, ExpectedReply(last'.in))
                ELSE tasks' = tasks
       /\ Len(tasks') > Len(tasks) =>
             /\ last'.node = ReplyNode
             /\ ReplyInputsPresent(last'.in)
             /\ tasks' = Append(tasks, ExpectedReply(last'.in))
             /\ sent' = sent
       /\ Len(tasks') < Len(tasks) =>
             /\ tasks' = Tail(tasks)
             /\ sent' = Append(sent, Head(tasks))
       /\ Len(tasks') = Len(tasks) => tasks' = tasks
      ]_vars

C4_Witness ==
    /\ pc = "body"
    /\ last.node = ReplyNode /\ last.outcome = "returned"
    /\ ReplyInputsPresent(last.in)
    /\ last.in[2] = ports["L2"]
    /\ tasks = <<ExpectedReply(last.in)>>
    /\ tasks[1].chat_id = PyInt(8) /\ tasks[1].reply_to_message_id = PyInt(12)
    /\ sent = <<>>

C4_WitnessNoUpdate ==
    /\ pc = "body"
    /\ last.node = ReplyNode /\ last.outcome = "returned"
    /\ last.in[1] = AppRef(1) /\ last.in[2] = NoUpdatePayload
    /\ tasks = <<>>

\* the replies created during the command being handled, in creation order
Created == SelectSeq(calls, LAMBDA c : c[1] = "create_task")
\* the replies started since the last update, then those still waiting
ReplyOrder == SelectSeq(sent, LAMBDA m : m.by = "reply") \o tasks

\* C10: no reply is sent while command_callback runs, and the replies created
\* during a command are started after those already waiting and in the order
\* they were created.
C10_RepliesSentAfterCallbackInOrder ==
    /\ pc # "idle" => sent = <<>>
    /\ Len(Created) <= Len(ReplyOrder)
    /\ \A k \in 1..Len(Created) :
          LET r == ReplyOrder[Len(ReplyOrder) - Len(Created) + k] IN
          /\ r.text = Created[k][2]
          /\ r.reply_to_message_id = MessageOf(received).message_id
          /\ r.chat_id = MessageOf(received).chat.id

C10_Witness ==
    /\ pc = "idle"
    /\ Len(Created) = 2
    /\ Created[1][2] = TextB /\ Created[2][2] = TextA
    /\ tasks = <<>>
    /\ Len(sent) = 2
    /\ sent[1].text = TextB /\ sent[2].text = TextA

PayloadKeys == {"command_name", "message_text", "chat_id", "user_id", "update"}

\* the first name of the user of update u, "" without a user or a first name
FirstNameOf(u) ==
    IF MessageOf(u).from_user = None THEN PyStr(<<>>)
    ELSE IF MessageOf(u).from_user.first_name = None THEN PyStr(<<>>)
    ELSE MessageOf(u).from_user.first_name

\* C6: TelegramParsePayload, given a payload built by command_callback, outputs
\* the payload's chat_id, user_id, message_text, command_name and update, and the
\* first name of the update's user or ""; given None or an empty payload it
\* outputs None five times and "".
C6_ParseReadsBackPayload ==
    parsed # None =>
        IF parsed.in \in {None, EmptyDict}
        THEN /\ \A k \in {"chat_id", "user_id", "message_text", "update_obj",
                          "command_name"} : parsed.out[k] = None
             /\ parsed.out.first_name = PyStr(<<>>)
        ELSE parsed.in.t = "dict" /\ DOMAIN parsed.in.v = PayloadKeys =>
             /\ parsed.out.chat_id = parsed.in.v["chat_id"]
             /\ parsed.out.user_id = parsed.in.v["user_id"]
             /\ parsed.out.message_text = parsed.in.v["message_text"]
             /\ parsed.out.command_name = parsed.in.v["command_name"]
             /\ parsed.out.update_obj = parsed.in.v["update"]
             /\ parsed.out.first_name = FirstNameOf(parsed.in.v["update"])

C6_Witness ==
    /\ pc = "body"
    /\ parsed # None
    /\ parsed.in.t = "dict"
    /\ parsed.in = ports["L2"]
    /\ DOMAIN parsed.in.v = PayloadKeys
    /\ parsed.in.v["update"] = received
    /\ parsed.out.user_id = PyInt(6)
    /\ parsed.out.first_name = PyStr(<<>>)
    /\ parsed.out.message_text = PyStr(<<"x">>)

====
